---- MODULE Spec2Model ----
(***************************************************************************)
(* The authentication endpoint of the iRODS HTTP API                        *)
(* (src/endpoints/authentication/impl.cpp).                                 *)
(*                                                                          *)
(* A unit of work is one call of the endpoint's entry function together     *)
(* with the background task it hands to the dispatcher.  Its position is    *)
(* pc[r]; its captured request, parsed url and local variables keep the     *)
(* names they have in the source.  The process stash, the steady clock and  *)
(* the responses handed to the session are the shared state.                *)
(***************************************************************************)
EXTENDS Integers, Sequences, FiniteSets, TLC

\* ------------------------------------------------------------------ bounds

\* Largest number of decoded credential bytes in an Authorization value.
MaxCredLen == 3
\* Largest number of parameters in a callback query.
MaxQueryParams == 2
\* Largest number of records the stash holds before requests stop arriving.
MaxStash == 1
\* Largest reading of the steady clock.
MaxClock == 1
\* Largest number of ways in which the IdP's answer differs from the plain
\* successful one (error members, a missing or undecodable id_token, claims
\* the handler decides on).
MaxOddClaims == 1

\* ----------------------------------------------------------- configuration

\* oidc_configuration().at("client_id")
client_id == "irods_http_api"
\* oidc_configuration().at("redirect_uri")
redirect_uri == "https://gw/cb"
\* oidc_endpoint_configuration().at("authorization_endpoint")
authorization_endpoint == "https://idp/auth"
\* oidc_endpoint_configuration().at("issuer")
issuer == "https://idp"
\* /http_server/authentication/basic/timeout_in_seconds
seconds == 1
\* the literal the redirect sends as 'state' and the callback compares with
placeholder == "placeholder"

\* The values a 'state' parameter takes here.
StateValues == {placeholder, "wrong"}

\* The units of work of the specification Spec: one session, served again and again.
Reqs == {"r1"}

\* ------------------------------------------------------------------ base64

\* The characters credentials are written in, and their byte values.
Chars == {"a", ":"}

ByteOf(c) == IF c = "a" THEN 97 ELSE 58

CharOf(b) ==
    IF b = 97 THEN "a" ELSE IF b = 58 THEN ":" ELSE IF b = 0 THEN "NUL" ELSE "?"

RECURSIVE SeqsUpTo(_, _)
SeqsUpTo(S, n) ==
    IF n = 0 THEN {<<>>}
    ELSE LET shorter == SeqsUpTo(S, n - 1)
         IN  shorter \cup {Append(s, x) : s \in {t \in shorter : Len(t) = n - 1}, x \in S}

\* The pad character '=' as a symbol beside the sextets 0..63.
Pad == 64

RECURSIVE base64_encode(_)
base64_encode(bytes) ==
    IF Len(bytes) = 0 THEN <<>>
    ELSE LET n  == IF Len(bytes) >= 3 THEN 3 ELSE Len(bytes)
             b0 == bytes[1]
             b1 == IF n >= 2 THEN bytes[2] ELSE 0
             b2 == IF n >= 3 THEN bytes[3] ELSE 0
             t  == b0 * 65536 + b1 * 256 + b2
             s0 == t \div 262144
             s1 == (t \div 4096) % 64
             s2 == IF n >= 2 THEN (t \div 64) % 64 ELSE Pad
             s3 == IF n >= 3 THEN t % 64 ELSE Pad
         IN  <<s0, s1, s2, s3>> \o base64_encode(SubSeq(bytes, n + 1, Len(bytes)))

\* A character outside the base64 alphabet, as a symbol beside the sextets.
Skipped == 65

\* max_creds_size, the size of the buffer the credentials are decoded into
max_creds_size == 128

\* The loop of irods::base64_decode from place x of the text on: t and y are
\* the bits and the count of the sextets gathered, g what the pads leave of
\* the last group, out the bytes written.  It skips a character outside the
\* alphabet, gives up on a pad too many, on a sextet after a pad, on a full
\* buffer and on a group left unfinished, and stores the length only at its
\* regular end.
RECURSIVE base64_decode_from(_, _, _, _, _, _, _)
base64_decode_from(text, x, t, y, g, out, outlen) ==
    IF x > Len(text)
    THEN IF y # 0
         THEN [ok |-> FALSE, out |-> out, outlen |-> outlen]
         ELSE [ok |-> TRUE, out |-> out, outlen |-> Len(out)]
    ELSE IF text[x] = Skipped
    THEN base64_decode_from(text, x + 1, t, y, g, out, outlen)
    ELSE IF text[x] = Pad /\ g - 1 < 0
    THEN [ok |-> FALSE, out |-> out, outlen |-> outlen]
    ELSE IF text[x] # Pad /\ g # 3
    THEN [ok |-> FALSE, out |-> out, outlen |-> outlen]
    ELSE LET g2 == IF text[x] = Pad THEN g - 1 ELSE g
             t2 == t * 64 + (IF text[x] = Pad THEN 0 ELSE text[x])
             n  == IF g2 > 2 THEN 3 ELSE IF g2 > 1 THEN 2 ELSE 1
             bytes == <<t2 \div 65536, (t2 \div 256) % 256, t2 % 256>>
         IN  IF y + 1 < 4
             THEN base64_decode_from(text, x + 1, t2, y + 1, g2, out, outlen)
             ELSE IF Len(out) + g2 > outlen
             THEN [ok |-> FALSE, out |-> out, outlen |-> outlen]
             ELSE base64_decode_from(text, x + 1, 0, 0, g2,
                                     out \o SubSeq(bytes, 1, n), outlen)

\* irods::base64_decode(in, inlen, out, &outlen): whether it returned 0, the
\* bytes it wrote and the length it left in outlen.
base64_decode(text, outlen) == base64_decode_from(text, 1, 0, 0, 3, <<>>, outlen)

\* The text a client sends for the credential string s.
Encoded(s) == base64_encode([i \in 1..Len(s) |-> ByteOf(s[i])])

\* ---------------------------------------------------------------- requests

QueryKeys == {"state", "code", "error", "error_description", "error_uri"}

ValueOf(k) ==
    IF k = "code" THEN "abc123"
    ELSE IF k = "error" THEN "access_denied"
    ELSE IF k = "error_description" THEN "denied"
    ELSE "https://idp/err"

\* url.query of a callback: a map from the parameters present to their values.
Queries ==
    UNION {
        { [k \in D |-> IF k = "state" THEN s ELSE ValueOf(k)] : s \in StateValues }
        : D \in {E \in SUBSET QueryKeys : Cardinality(E) <= MaxQueryParams} }

NoQuery == [k \in {} |-> ""]

\* The request target as parse_url sees it.
Targets ==
    {[kind |-> "absent", query |-> NoQuery], [kind |-> "unparsable", query |-> NoQuery]}
    \cup {[kind |-> "query", query |-> q] : q \in Queries}

\* The Authorization header: absent (<<>>) or one value.
Schemes == {"Basic ", "iRODS ", "Bearer "}

HeaderValues ==
    {[scheme |-> s, data |-> Encoded(c)] : s \in Schemes, c \in SeqsUpTo(Chars, MaxCredLen)}

Headers == {<<>>} \cup {<<h>> : h \in HeaderValues}

Requests ==
    {[method |-> "GET", target |-> t, authorization |-> <<>>] : t \in Targets}
    \cup {[method |-> "POST", target |-> [kind |-> "absent", query |-> NoQuery],
           authorization |-> h] : h \in Headers}
    \cup {[method |-> "DELETE", target |-> [kind |-> "absent", query |-> NoQuery],
           authorization |-> <<>>]}

NoRequest == [method |-> "", target |-> [kind |-> "absent", query |-> NoQuery],
              authorization |-> <<>>]

\* --------------------------------------------------------------- responses

\* fail(status): a response with the status and no body.
fail(status) == [status |-> status, content_type |-> "", location |-> <<>>, body |-> 0]

\* A 200 text/plain response whose body is the bearer token.
ok_response(bearer_token) ==
    [status |-> 200, content_type |-> "text/plain", location |-> <<>>, body |-> bearer_token]

\* ----------------------------------------------------------- the IdP's answer

alice == <<"a", "l", "i", "c", "e">>
bob == <<"b", "o", "b">>

\* The payload of an ID token.  An optional claim is <<>> when absent and
\* <<value>> when present; 'aud' is a string or an array of strings.
WellFormedToken ==
    [iss |-> issuer,
     aud |-> [is_array |-> FALSE, values |-> <<client_id>>],
     azp |-> <<>>,
     exp |-> MaxClock + 1,
     irods_username |-> <<alice>>,
     preferred_username |-> <<>>]

AllTokens ==
    [iss : {issuer, "https://evil"},
     aud : {[is_array |-> FALSE, values |-> <<client_id>>],
            [is_array |-> FALSE, values |-> <<"other_client">>],
            [is_array |-> TRUE, values |-> <<client_id>>]},
     azp : {<<>>, <<client_id>>, <<"other_client">>},
     exp : 0..(MaxClock + 1),
     irods_username : {<<>>, <<alice>>},
     preferred_username : {<<>>, <<bob>>}]

\* The claims the handler decides on.
TokenFields == {"iss", "aud", "azp", "exp", "irods_username"}

OddClaims(t) == Cardinality({f \in TokenFields : t[f] # WellFormedToken[f]})

\* The compact JWT under 'id_token': jwt::decode either throws or yields the payload.
Jwts ==
    {[decodes |-> TRUE, payload |-> t] : t \in AllTokens}
    \cup {[decodes |-> FALSE, payload |-> WellFormedToken]}

\* The JSON document of the token endpoint: which of the error members it has,
\* and its 'id_token' member (<<>> when it has none).
ErrorMembers == {"error", "error_description", "error_uri"}

AllDocs == [members : SUBSET ErrorMembers, id_token : {<<>>} \cup {<<j>> : j \in Jwts}]

Oddness(d) ==
    Cardinality(d.members)
    + (IF d.id_token = <<>> THEN 1
       ELSE IF ~d.id_token[1].decodes THEN 1
       ELSE OddClaims(d.id_token[1].payload))

Docs == {d \in AllDocs : Oddness(d) <= MaxOddClaims}

\* The documents of whoever answers when the request goes out with a null host.
StrayDocs == {d \in Docs : Oddness(d) = 0}

\* What can happen to the exchange with the token endpoint.
TransportOutcomes == {"ok", "url_parse_failed", "resolve_failed", "connect_failed", "not_json"}

\* The try block of the Basic branch: which call throws and what, or the error
\* code of rc_check_auth_credentials and the correctness flag (<<>> is null).
RpcOutcomes ==
    {[throws |-> t, exception |-> x, ec |-> 0, correct |-> <<>>] :
        t \in {"obfuscate_password", "get_connection", "rc_check_auth_credentials"},
        x \in {"irods::exception", "std::exception"}}
    \cup {[throws |-> "", exception |-> "", ec |-> e, correct |-> c] :
            e \in {-1, 0}, c \in {<<>>, <<0>>, <<1>>}}

NoRpc == [throws |-> "", exception |-> "", ec |-> 0, correct |-> <<>>]

\* ------------------------------------------------------------------- state

VARIABLES
    pc,               \* where each unit of work stands
    req,              \* _req, the request it captured
    url,              \* url.query as parse_url returned it
    username,         \* the decoded username (POST)
    password,         \* the decoded password (POST)
    login_successful, \* the flag of the Basic branch
    rpc_result,       \* what the credential check met
    rpc_calls,        \* how often rc_check_auth_credentials was invoked
    correct_life,     \* what happened to the out-parameter 'correct', in order
    transport,        \* what the exchange with the token endpoint met
    token_requests,   \* the arguments of every call of hit_token_endpoint
    oidc_response,    \* <<>> or <<the document hit_token_endpoint returned>>
    decoded_token,    \* <<>> or <<the payload jwt::decode returned>>
    token_expired,    \* what the comparison of the clock with 'exp' gave
    bearer_token,     \* the tokens process_stash::insert returned to it
    sent,             \* the responses handed to _sess_ptr->send, in order
    stash,            \* the process stash: token i maps to stash[i]
    clock,            \* std::chrono::steady_clock
    issued_states,    \* the 'state' values the redirects have sent out
    accepted_states   \* the 'state' values callbacks have accepted

locals == <<req, url, username, password, login_successful, rpc_result, rpc_calls,
            correct_life,
            transport, token_requests, oidc_response, decoded_token, token_expired,
            bearer_token>>

vars == <<pc, locals, sent, stash, clock, issued_states, accepted_states>>

\* The process has not been brought down.
Alive == \A r \in DOMAIN pc : pc[r] # "crashed"

Init ==
    /\ pc = [r \in Reqs |-> "idle"]
    /\ req = [r \in Reqs |-> NoRequest]
    /\ url = [r \in Reqs |-> NoQuery]
    /\ username = [r \in Reqs |-> <<>>]
    /\ password = [r \in Reqs |-> <<>>]
    /\ login_successful = [r \in Reqs |-> FALSE]
    /\ rpc_result = [r \in Reqs |-> NoRpc]
    /\ rpc_calls = [r \in Reqs |-> 0]
    /\ correct_life = [r \in Reqs |-> <<>>]
    /\ transport = [r \in Reqs |-> ""]
    /\ token_requests = [r \in Reqs |-> <<>>]
    /\ oidc_response = [r \in Reqs |-> <<>>]
    /\ decoded_token = [r \in Reqs |-> <<>>]
    /\ token_expired = [r \in Reqs |-> FALSE]
    /\ bearer_token = [r \in Reqs |-> <<>>]
    /\ sent = [r \in Reqs |-> <<>>]
    /\ stash = <<>>
    /\ clock = 0
    /\ issued_states = {}
    /\ accepted_states = {}

\* ----------------------------------------------------------------- helpers

\* parse_url(_req): throws when the target has no query or one that does not parse.
parse_url(request) ==
    [did_except |-> request.target.kind # "query", query |-> request.target.query]

\* irods::http::encode: percent-encoding, on the strings of this model.
encode(s) ==
    IF s = redirect_uri THEN "https%3A%2F%2Fgw%2Fcb"
    ELSE IF s = "https://idp/err" THEN "https%3A%2F%2Fidp%2Ferr"
    ELSE s

\* The orders in which an unordered map may enumerate the keys S.
Orders(S) ==
    {o \in [1..Cardinality(S) -> S] : \A i, j \in 1..Cardinality(S) : i # j => o[i] # o[j]}

\* encode_body(_args): the pairs key=value in the map's order, joined by '&'.
encode_body(args, order) ==
    [i \in 1..Len(order) |-> <<encode(order[i]), encode(args[order[i]])>>]

\* is_error_response, were a description needed for an error to count
is_error_response_described(doc) ==
    "error" \in doc.members /\ "error_description" \in doc.members

\* is_error_response(_response_to_check)
is_error_response(doc) == "error" \in doc.members

\* is_state_valid, were it to accept whatever the callback carries
is_state_valid_any(in_state) == in_state \in StateValues

\* The lambda is_state_valid of the callback.
is_state_valid(in_state) == in_state = placeholder

\* code_found, were an 'error' parameter enough to go on
code_found_or_error(query) == "code" \in DOMAIN query \/ "error" \in DOMAIN query

\* code_iter != std::end(url.query)
code_found(query) == "code" \in DOMAIN query

\* The position of the first ':' in sv, or 0 (npos).
FirstColon(sv) ==
    IF \E i \in 1..Len(sv) : sv[i] = ":"
    THEN CHOOSE i \in 1..Len(sv) : sv[i] = ":" /\ \A j \in 1..(i - 1) : sv[j] # ":"
    ELSE 0

\* decode_username_and_password(_encoded_data): <<username, password>>
decode_username_and_password(data) ==
    LET decoded == base64_decode(data, max_creds_size)
        creds(i) == IF i <= Len(decoded.out) THEN decoded.out[i] ELSE 0
        sv == [i \in 1..decoded.outlen |-> CharOf(creds(i))]
        colon == FirstColon(sv)
    IN  IF colon = 0 THEN <<<<>>, <<>>>>
        ELSE <<SubSeq(sv, 1, colon - 1), SubSeq(sv, colon + 1, Len(sv))>>

\* initiate_args, were the implicit flow asked for
initiate_args_implicit ==
    [client_id |-> client_id, response_type |-> "token", scope |-> "openid",
     redirect_uri |-> redirect_uri, state |-> placeholder]

\* The arguments of the redirect to the authorization endpoint.
initiate_args ==
    [client_id |-> client_id, response_type |-> "code", scope |-> "openid",
     redirect_uri |-> redirect_uri, state |-> placeholder]

\* The arguments of the authorization-code exchange.
callback_args(query) ==
    [grant_type |-> "authorization_code", client_id |-> client_id,
     code |-> query["code"], redirect_uri |-> redirect_uri]

\* ropc_args, were the grant asked for by another name
ropc_args_client_credentials(user, pass) ==
    [client_id |-> client_id, grant_type |-> "client_credentials", scope |-> "openid",
     username |-> user, password |-> pass]

\* The arguments of the password grant.
ropc_args(user, pass) ==
    [client_id |-> client_id, grant_type |-> "password", scope |-> "openid",
     username |-> user, password |-> pass]

\* iss_matches, were 'iss' compared with the wrong configuration entry
iss_matches_client(t) == t.iss = client_id

\* 2) the issuer must match 'iss'
iss_matches(t) == t.iss = issuer

\* aud_matches, were an array accepted by its first element
aud_matches_first(t) == t.aud.values[1] = client_id

\* 3) 'aud' is one string, the client id
aud_matches(t) == ~t.aud.is_array /\ t.aud.values[1] = client_id

\* 5) 'azp', when present, is the client id
azp_matches(t) == t.azp = <<>> \/ t.azp[1] = client_id

\* 9) the comparison of the current time with 'exp'
is_expired(t, now) == now >= t.exp

\* Steps 2 to 5 of the ID token validation: TRUE when the token is turned away.
id_token_rejected(t) ==
    IF ~iss_matches(t) THEN TRUE
    ELSE IF ~aud_matches(t) THEN TRUE
    ELSE ~azp_matches(t)

\* irods_name, were 'preferred_username' taken when it is there
irods_name_or_preferred(t) ==
    IF t.preferred_username # <<>> THEN t.preferred_username[1] ELSE t.irods_username[1]

\* The name the stash record gets from the decoded token.
irods_name(t) == t.irods_username[1]

\* is_caught, were the second catch clause missing
is_caught_irods_only(exception) == exception = "irods::exception"

\* The catch clauses of the Basic branch.
is_caught(exception) == exception \in {"irods::exception", "std::exception"}

\* free_memory, were std::free called at the end of the try block instead
free_memory_at_end(result) ==
    IF result.throws = "obfuscate_password" THEN <<>>
    ELSE <<"declared">>
         \o (IF result.throws = "get_connection" THEN <<>>
             ELSE <<"rc_check_auth_credentials">>
                  \o (IF result.throws # "" THEN <<>>
                      ELSE (IF result.ec < 0 \/ result.correct = <<>> THEN <<>>
                            ELSE <<"dereferenced", "dereferenced">>)
                           \o <<"freed">>))

\* int* correct{} and irods::at_scope_exit free_memory: what happens to the
\* out-parameter from its declaration to the end of the try block, in order.
free_memory(result) ==
    IF result.throws = "obfuscate_password" THEN <<>>
    ELSE <<"declared">>
         \o (IF result.throws = "get_connection" THEN <<>>
             ELSE <<"rc_check_auth_credentials">>
                  \o (IF result.throws # "" \/ result.ec < 0 \/ result.correct = <<>>
                      THEN <<>>
                      ELSE <<"dereferenced", "dereferenced">>))
         \o <<"freed">>

\* credentials_correct, were the correctness flag not looked at
credentials_correct_code_only(result) ==
    /\ result.throws = ""
    /\ ~(result.ec < 0)

\* login_successful = (correct && 1 == *correct), reached only when ec >= 0
credentials_correct(result) ==
    /\ result.throws = ""
    /\ ~(result.ec < 0)
    /\ result.correct # <<>>
    /\ result.correct[1] = 1

\* expires_at, were the timeout left out
expires_at_now(now) == now

\* std::chrono::steady_clock::now() + std::chrono::seconds{seconds}
expires_at(now) == now + seconds

\* authenticated_client_info, were every record given a password
authenticated_client_info_with_password(scheme, user, pass, now) ==
    [auth_scheme |-> scheme, username |-> user, password |-> <<user>>,
     expires_at |-> now + seconds]

\* authenticated_client_info{...} as the three branches build it
authenticated_client_info(scheme, user, pass, now) ==
    [auth_scheme |-> scheme, username |-> user, password |-> pass,
     expires_at |-> expires_at(now)]

\* _sess_ptr->send(res) followed by the task's return
Send(r, res) ==
    /\ sent' = [sent EXCEPT ![r] = Append(@, res)]
    /\ pc' = [pc EXCEPT ![r] = "returned"]

\* An exception leaves the task: nothing is sent.
Throw(r) ==
    /\ pc' = [pc EXCEPT ![r] = "threw"]
    /\ UNCHANGED sent

\* IssueToken, were the stash to hand out one key for every record
IssueToken_one_key(r, info) ==
    LET token == 1
    IN  /\ stash' = Append(stash, info)
        /\ bearer_token' = [bearer_token EXCEPT ![r] = Append(@, token)]
        /\ Send(r, ok_response(token))

\* irods::process_stash::insert(info), then the 200 response with the token
IssueToken(r, info) ==
    LET token == Len(stash) + 1
    IN  /\ stash' = Append(stash, info)
        /\ bearer_token' = [bearer_token EXCEPT ![r] = Append(@, token)]
        /\ Send(r, ok_response(token))

\* ------------------------------------------------------------------ actions

\* The entry function: it looks at the method, parses the url of a GET and
\* hands the matching task to the dispatcher, or answers 405 itself.
Dispatch(r) ==
    /\ Alive
    /\ pc[r] = "idle"
    /\ Len(stash) < MaxStash
    /\ \E request \in Requests :
        /\ req' = [req EXCEPT ![r] = request]
        /\ IF request.method = "GET"
           THEN LET u == parse_url(request)
                IN  /\ url' = [url EXCEPT ![r] = u.query]
                    /\ pc' = [pc EXCEPT ![r] = IF u.did_except THEN "initiate" ELSE "callback"]
                    /\ UNCHANGED sent
           ELSE IF request.method = "POST"
           THEN /\ pc' = [pc EXCEPT ![r] = "post"]
                /\ UNCHANGED <<url, sent>>
           ELSE /\ Send(r, fail(405))
                /\ UNCHANGED url
    /\ UNCHANGED <<username, password, login_successful, rpc_result, rpc_calls, correct_life, transport,
                   token_requests, oidc_response, decoded_token, token_expired, bearer_token>>
    /\ UNCHANGED <<stash, clock, issued_states, accepted_states>>

\* The task of a GET whose url did not parse: the redirect to the IdP.
Initiate(r) ==
    /\ Alive
    /\ pc[r] = "initiate"
    /\ \E order \in Orders(DOMAIN initiate_args) :
        Send(r, [status |-> 302, content_type |-> "",
                 location |-> <<[endpoint |-> authorization_endpoint,
                                 query |-> encode_body(initiate_args, order)]>>,
                 body |-> 0])
    /\ issued_states' = issued_states \cup {initiate_args.state}
    /\ UNCHANGED <<locals, stash, clock, accepted_states>>

\* The task of a GET with a query, up to the call of hit_token_endpoint.
CallbackCheck(r) ==
    /\ Alive
    /\ pc[r] = "callback"
    /\ LET query == url[r]
       IN  IF "state" \notin DOMAIN query
           THEN /\ Send(r, fail(400))
                /\ UNCHANGED accepted_states
           ELSE IF ~is_state_valid(query["state"])
           THEN /\ Send(r, fail(400))
                /\ UNCHANGED accepted_states
           ELSE /\ accepted_states' = accepted_states \cup {query["state"]}
                /\ IF ~code_found(query)
                   THEN Send(r, fail(400))
                   ELSE /\ pc' = [pc EXCEPT ![r] = "exchange"]
                        /\ UNCHANGED sent
    /\ UNCHANGED <<locals, stash, clock, issued_states>>

\* The arguments the unit of work passes to hit_token_endpoint.
ExchangeArgs(r) ==
    IF req[r].method = "GET" THEN callback_args(url[r]) ELSE ropc_args(username[r], password[r])

\* HitTokenEndpoint, were a failed exchange tried again
HitTokenEndpoint_retrying(r) ==
    /\ Alive
    /\ pc[r] = "exchange"
    /\ token_requests' = [token_requests EXCEPT ![r] = Append(@, ExchangeArgs(r))]
    /\ \E outcome \in TransportOutcomes :
        /\ transport' = [transport EXCEPT ![r] = outcome]
        /\ \/ /\ outcome \in {"ok", "url_parse_failed"}
              /\ \E doc \in (IF outcome = "ok" THEN Docs ELSE StrayDocs) :
                    oidc_response' = [oidc_response EXCEPT ![r] = <<doc>>]
              /\ pc' = [pc EXCEPT ![r] = "decode"]
              /\ UNCHANGED sent
           \/ /\ outcome \in {"resolve_failed", "connect_failed", "not_json", "url_parse_failed"}
              /\ UNCHANGED <<pc, sent, oidc_response>>
           \/ /\ outcome = "url_parse_failed"
              /\ pc' = [pc EXCEPT ![r] = "crashed"]
              /\ UNCHANGED <<sent, oidc_response>>
    /\ UNCHANGED <<req, url, username, password, login_successful, rpc_result, rpc_calls, correct_life,
                   decoded_token, token_expired, bearer_token>>
    /\ UNCHANGED <<stash, clock, issued_states, accepted_states>>

\* hit_token_endpoint(encode_body(args)).  A url that does not parse leaves host
\* and path null, and the resolver is then called with a null pointer.
HitTokenEndpoint(r) ==
    /\ Alive
    /\ pc[r] = "exchange"
    /\ token_requests' = [token_requests EXCEPT ![r] = Append(@, ExchangeArgs(r))]
    /\ \E outcome \in TransportOutcomes :
        /\ transport' = [transport EXCEPT ![r] = outcome]
        /\ \/ /\ outcome \in {"ok", "url_parse_failed"}
              /\ \E doc \in (IF outcome = "ok" THEN Docs ELSE StrayDocs) :
                    oidc_response' = [oidc_response EXCEPT ![r] = <<doc>>]
              /\ pc' = [pc EXCEPT ![r] = "decode"]
              /\ UNCHANGED sent
           \/ /\ outcome \in {"resolve_failed", "connect_failed", "not_json", "url_parse_failed"}
              /\ Throw(r)
              /\ UNCHANGED oidc_response
           \/ /\ outcome = "url_parse_failed"
              /\ pc' = [pc EXCEPT ![r] = "crashed"]
              /\ UNCHANGED <<sent, oidc_response>>
    /\ UNCHANGED <<req, url, username, password, login_successful, rpc_result, rpc_calls, correct_life,
                   decoded_token, token_expired, bearer_token>>
    /\ UNCHANGED <<stash, clock, issued_states, accepted_states>>

\* From the returned document to the decoded ID token.
DecodeIdToken(r) ==
    /\ Alive
    /\ pc[r] = "decode"
    /\ LET doc == oidc_response[r][1]
       IN  IF is_error_response(doc)
           THEN /\ Send(r, fail(400))
                /\ UNCHANGED decoded_token
           ELSE IF doc.id_token = <<>> \/ ~doc.id_token[1].decodes
           THEN /\ Throw(r)
                /\ UNCHANGED decoded_token
           ELSE /\ decoded_token' = [decoded_token EXCEPT ![r] = <<doc.id_token[1].payload>>]
                /\ pc' = [pc EXCEPT ![r] = IF req[r].method = "GET" THEN "validate" ELSE "username"]
                /\ UNCHANGED sent
    /\ UNCHANGED <<req, url, username, password, login_successful, rpc_result, rpc_calls, correct_life,
                   transport, token_requests, oidc_response, token_expired, bearer_token>>
    /\ UNCHANGED <<stash, clock, issued_states, accepted_states>>

\* The OIDC ID token validation of the callback.  Step 9 compares the clock
\* with 'exp'; the branch it guards is empty.
ValidateIdToken(r) ==
    /\ Alive
    /\ pc[r] = "validate"
    /\ LET t == decoded_token[r][1]
       IN  IF id_token_rejected(t)
           THEN /\ Send(r, fail(400))
                /\ UNCHANGED token_expired
           ELSE /\ token_expired' = [token_expired EXCEPT ![r] = is_expired(t, clock)]
                /\ pc' = [pc EXCEPT ![r] = "username"]
                /\ UNCHANGED sent
    /\ UNCHANGED <<req, url, username, password, login_successful, rpc_result, rpc_calls, correct_life,
                   transport, token_requests, oidc_response, decoded_token, bearer_token>>
    /\ UNCHANGED <<stash, clock, issued_states, accepted_states>>

\* 'irods_username' and, when it is there, the token for it (callback and ROPC).
IssueOidcToken(r) ==
    /\ Alive
    /\ pc[r] = "username"
    /\ LET t == decoded_token[r][1]
       IN  IF t.irods_username = <<>>
           THEN /\ Send(r, fail(400))
                /\ UNCHANGED <<stash, bearer_token>>
           ELSE IssueToken(r, authenticated_client_info("openid_connect", irods_name(t), <<>>, clock))
    /\ UNCHANGED <<req, url, username, password, login_successful, rpc_result, rpc_calls, correct_life,
                   transport, token_requests, oidc_response, decoded_token, token_expired>>
    /\ UNCHANGED <<clock, issued_states, accepted_states>>

\* has_prefix, were every scheme taken for the one looked for
has_prefix_any(value, prefix) == value.scheme \in Schemes

\* value.find(prefix) != npos, for the Authorization values of this model
has_prefix(value, prefix) == value.scheme = prefix

\* The task of a POST up to the credentials: the header, its scheme (Basic is
\* looked for first) and the decoded username and password.
PostCheck(r) ==
    /\ Alive
    /\ pc[r] = "post"
    /\ IF req[r].authorization = <<>>
       THEN /\ Send(r, fail(400))
            /\ UNCHANGED <<username, password>>
       ELSE LET value == req[r].authorization[1]
                creds == decode_username_and_password(value.data)
                empty == creds[1] = <<>> \/ creds[2] = <<>>
            IN  IF has_prefix(value, "Basic ")
                THEN IF empty
                     THEN /\ Send(r, fail(401))
                          /\ UNCHANGED <<username, password>>
                     ELSE /\ username' = [username EXCEPT ![r] = creds[1]]
                          /\ password' = [password EXCEPT ![r] = creds[2]]
                          /\ pc' = [pc EXCEPT ![r] = "check"]
                          /\ UNCHANGED sent
                ELSE IF has_prefix(value, "iRODS ")
                THEN IF empty
                     THEN /\ Send(r, fail(401))
                          /\ UNCHANGED <<username, password>>
                     ELSE /\ username' = [username EXCEPT ![r] = creds[1]]
                          /\ password' = [password EXCEPT ![r] = creds[2]]
                          /\ pc' = [pc EXCEPT ![r] = "exchange"]
                          /\ UNCHANGED sent
                ELSE /\ Send(r, fail(400))
                     /\ UNCHANGED <<username, password>>
    /\ UNCHANGED <<req, url, login_successful, rpc_result, rpc_calls, correct_life, transport,
                   token_requests, oidc_response, decoded_token, token_expired, bearer_token>>
    /\ UNCHANGED <<stash, clock, issued_states, accepted_states>>

\* The try block of the Basic branch and its catch clauses.
CheckCredentials(r) ==
    /\ Alive
    /\ pc[r] = "check"
    /\ \E result \in RpcOutcomes :
        /\ rpc_result' = [rpc_result EXCEPT ![r] = result]
        /\ rpc_calls' = [rpc_calls EXCEPT ![r] =
                            IF result.throws \in {"obfuscate_password", "get_connection"}
                            THEN @ ELSE @ + 1]
        /\ login_successful' = [login_successful EXCEPT ![r] = credentials_correct(result)]
        /\ correct_life' = [correct_life EXCEPT ![r] = free_memory(result)]
        /\ IF result.throws # "" /\ ~is_caught(result.exception)
           THEN Throw(r)
           ELSE /\ pc' = [pc EXCEPT ![r] = "issue"]
                /\ UNCHANGED sent
    /\ UNCHANGED <<req, url, username, password, transport, token_requests, oidc_response,
                   decoded_token, token_expired, bearer_token>>
    /\ UNCHANGED <<stash, clock, issued_states, accepted_states>>

\* IssueBasicToken, were the record inserted before login_successful is
\* looked at
IssueBasicToken_insert_first(r) ==
    /\ Alive
    /\ pc[r] = "issue"
    /\ IF ~login_successful[r]
       THEN /\ stash' = Append(stash, authenticated_client_info("basic", username[r],
                                                                <<password[r]>>, clock))
            /\ bearer_token' = [bearer_token EXCEPT ![r] = Append(@, Len(stash) + 1)]
            /\ Send(r, fail(401))
       ELSE IssueToken(r, authenticated_client_info("basic", username[r], <<password[r]>>, clock))
    /\ UNCHANGED <<req, url, username, password, login_successful, rpc_result, rpc_calls, correct_life,
                   transport, token_requests, oidc_response, decoded_token, token_expired>>
    /\ UNCHANGED <<clock, issued_states, accepted_states>>

\* After the try block: 401, or the token of the basic scheme.
IssueBasicToken(r) ==
    /\ Alive
    /\ pc[r] = "issue"
    /\ IF ~login_successful[r]
       THEN /\ Send(r, fail(401))
            /\ UNCHANGED <<stash, bearer_token>>
       ELSE IssueToken(r, authenticated_client_info("basic", username[r], <<password[r]>>, clock))
    /\ UNCHANGED <<req, url, username, password, login_successful, rpc_result, rpc_calls, correct_life,
                   transport, token_requests, oidc_response, decoded_token, token_expired>>
    /\ UNCHANGED <<clock, issued_states, accepted_states>>

\* The session is over and the unit of work's slot is free again.
Recycle(r) ==
    /\ Alive
    /\ pc[r] \in {"returned", "threw"}
    /\ pc' = [pc EXCEPT ![r] = "idle"]
    /\ req' = [req EXCEPT ![r] = NoRequest]
    /\ url' = [url EXCEPT ![r] = NoQuery]
    /\ username' = [username EXCEPT ![r] = <<>>]
    /\ password' = [password EXCEPT ![r] = <<>>]
    /\ login_successful' = [login_successful EXCEPT ![r] = FALSE]
    /\ rpc_result' = [rpc_result EXCEPT ![r] = NoRpc]
    /\ rpc_calls' = [rpc_calls EXCEPT ![r] = 0]
    /\ correct_life' = [correct_life EXCEPT ![r] = <<>>]
    /\ transport' = [transport EXCEPT ![r] = ""]
    /\ token_requests' = [token_requests EXCEPT ![r] = <<>>]
    /\ oidc_response' = [oidc_response EXCEPT ![r] = <<>>]
    /\ decoded_token' = [decoded_token EXCEPT ![r] = <<>>]
    /\ token_expired' = [token_expired EXCEPT ![r] = FALSE]
    /\ bearer_token' = [bearer_token EXCEPT ![r] = <<>>]
    /\ sent' = [sent EXCEPT ![r] = <<>>]
    /\ UNCHANGED <<stash, clock, issued_states, accepted_states>>

\* The steady clock advances.
Tick ==
    /\ Alive
    /\ clock < MaxClock
    /\ clock' = clock + 1
    /\ UNCHANGED <<pc, locals, sent, stash, issued_states, accepted_states>>

Next ==
    \/ \E r \in DOMAIN pc : Dispatch(r)
    \/ \E r \in DOMAIN pc : Initiate(r)
    \/ \E r \in DOMAIN pc : CallbackCheck(r)
    \/ \E r \in DOMAIN pc : HitTokenEndpoint(r)
    \/ \E r \in DOMAIN pc : DecodeIdToken(r)
    \/ \E r \in DOMAIN pc : ValidateIdToken(r)
    \/ \E r \in DOMAIN pc : IssueOidcToken(r)
    \/ \E r \in DOMAIN pc : PostCheck(r)
    \/ \E r \in DOMAIN pc : CheckCredentials(r)
    \/ \E r \in DOMAIN pc : IssueBasicToken(r)
    \/ \E r \in DOMAIN pc : Recycle(r)
    \/ Tick

Spec == Init /\ [][Next]_vars

\* ------------------------------------------------------------------ claims

\* The branch a unit of work is on.
OnCallback(r) == req[r].method = "GET" /\ req[r].target.kind = "query"

OnBasic(r) ==
    /\ req[r].method = "POST"
    /\ req[r].authorization # <<>>
    /\ req[r].authorization[1].scheme = "Basic "

OnRopc(r) ==
    /\ req[r].method = "POST"
    /\ req[r].authorization # <<>>
    /\ req[r].authorization[1].scheme = "iRODS "

\* The unit of work has ended, one way or another.
Finished(r) == pc[r] \in {"returned", "threw", "crashed"}

\* The unit of work answered nothing but fail(status) and inserted nothing.
Refused(r, status) ==
    /\ pc[r] = "returned"
    /\ sent[r] = <<fail(status)>>
    /\ bearer_token[r] = <<>>

\* The unit of work inserted one record and answered 200 with its token.
Issued(r) ==
    /\ pc[r] = "returned"
    /\ Len(bearer_token[r]) = 1
    /\ bearer_token[r][1] \in DOMAIN stash
    /\ sent[r] = <<ok_response(bearer_token[r][1])>>

\* C1: every request ends with exactly one response handed to the session,
\* never none and never more than one.
C1_ExactlyOneResponse ==
    \A r \in DOMAIN pc :
        /\ Len(sent[r]) <= 1
        /\ Finished(r) => Len(sent[r]) = 1

\* C2: a callback whose 'state' is missing or is not the expected value is
\* answered 400, and its unit of work neither calls the token endpoint nor
\* inserts into the stash, whatever else the query carries.
C2_BadStateRefused ==
    \A r \in DOMAIN pc :
        (/\ OnCallback(r)
         /\ pc[r] # "callback"
         /\ ("state" \notin DOMAIN url[r] \/ url[r]["state"] # placeholder))
        => (Refused(r, 400) /\ token_requests[r] = <<>>)

C2_Witness ==
    \E r \in DOMAIN pc :
        /\ OnCallback(r)
        /\ pc[r] = "returned"
        /\ "state" \in DOMAIN url[r]
        /\ url[r]["state"] = "wrong"
        /\ "code" \in DOMAIN url[r]
        /\ sent[r] = <<fail(400)>>

\* C3: a callback's 'state' is accepted, and the flow goes on to the token
\* exchange, only if a redirect issued that value before and no earlier
\* callback has accepted it.
C3_StateSingleUse ==
    [][\A r \in DOMAIN pc :
          (pc[r] = "callback" /\ pc'[r] = "exchange")
          => (/\ url[r]["state"] \in issued_states
              /\ url[r]["state"] \notin accepted_states)]_vars

\* The decoded credentials of a POST.
Credentials(r) == decode_username_and_password(req[r].authorization[1].data)

CredentialsEmpty(r) ==
    LET creds == Credentials(r)
    IN  creds[1] = <<>> \/ creds[2] = <<>>

\* C4: on the Basic path a token of scheme basic is issued exactly when the
\* decoded username and password are non-empty and the RPC returned a code
\* >= 0 and a non-null flag equal to 1; empty credentials get 401 without the
\* RPC being invoked; a negative code or another flag gets 401 and no insert.
C4_BasicIssuesIffCorrect ==
    \A r \in DOMAIN pc :
        OnBasic(r) =>
            /\ CredentialsEmpty(r) => rpc_calls[r] = 0
            /\ pc[r] = "returned" =>
                /\ Issued(r) <=>
                    (/\ ~CredentialsEmpty(r)
                     /\ rpc_calls[r] = 1
                     /\ rpc_result[r].throws = ""
                     /\ rpc_result[r].ec >= 0
                     /\ rpc_result[r].correct = <<1>>)
                /\ Issued(r) => stash[bearer_token[r][1]].auth_scheme = "basic"
                /\ ~Issued(r) => Refused(r, 401)

C4_Witness ==
    \E r \in DOMAIN pc :
        /\ OnBasic(r)
        /\ Issued(r)
        /\ rpc_result[r].ec >= 0
        /\ rpc_result[r].correct = <<1>>

\* C5: on the Basic path an exception of get_connection, of the password
\* obfuscation or of the RPC is caught inside the unit of work: the login
\* stays unsuccessful, the answer is 401, nothing is inserted, and the
\* exception does not leave the unit of work.
C5_BasicExceptionCaught ==
    \A r \in DOMAIN pc :
        (OnBasic(r) /\ rpc_result[r].throws # "") =>
            /\ pc[r] \in {"issue", "returned"}
            /\ ~login_successful[r]
            /\ bearer_token[r] = <<>>
            /\ pc[r] = "returned" => sent[r] = <<fail(401)>>

C5_Witness ==
    \E r \in DOMAIN pc :
        /\ OnBasic(r)
        /\ rpc_result[r].throws = "rc_check_auth_credentials"
        /\ rpc_result[r].exception = "std::exception"
        /\ Refused(r, 401)

\* The callback's validation has looked at the decoded token.
Validated(r) ==
    /\ OnCallback(r)
    /\ decoded_token[r] # <<>>
    /\ pc[r] # "validate"

\* C6: on the callback path a token is issued only if 'iss' is the configured
\* issuer, 'aud' is a single string equal to the client id and 'azp', when
\* present, is the client id; otherwise the answer is 400 and nothing is
\* inserted.  An 'aud' that is an array is refused whatever it holds.
C6_IssAudAzpChecked ==
    \A r \in DOMAIN pc :
        Validated(r) =>
            LET t == decoded_token[r][1]
                acceptable ==
                    /\ t.iss = issuer
                    /\ ~t.aud.is_array
                    /\ t.aud.values = <<client_id>>
                    /\ (t.azp = <<>> \/ t.azp = <<client_id>>)
            IN  /\ bearer_token[r] # <<>> => acceptable
                /\ ~acceptable => Refused(r, 400)

C6_Witness ==
    \E r \in DOMAIN pc :
        /\ Validated(r)
        /\ decoded_token[r][1].iss = issuer
        /\ decoded_token[r][1].aud = [is_array |-> TRUE, values |-> <<client_id>>]
        /\ Refused(r, 400)

\* C7: a callback whose ID token has an 'exp' that is not later than the
\* current time never gets a stash insert or a 200 response, even when iss,
\* aud, azp and irods_username are all valid.
C7_ExpiredRefused ==
    \A r \in DOMAIN pc :
        (OnCallback(r) /\ token_expired[r]) =>
            /\ bearer_token[r] = <<>>
            /\ \A i \in DOMAIN sent[r] : sent[r][i].status # 200

\* The decoded token has been looked at for 'irods_username'.
NameLookedUp(r) ==
    /\ OnCallback(r) \/ OnRopc(r)
    /\ decoded_token[r] # <<>>
    /\ pc[r] = "returned"

\* C8: on both OIDC paths a token without 'irods_username' is refused with
\* 400 and no token, with or without 'preferred_username'; the username of
\* the stash record is the token's 'irods_username', never 'preferred_username'.
C8_IrodsUsernameOnly ==
    \A r \in DOMAIN pc :
        NameLookedUp(r) =>
            LET t == decoded_token[r][1]
            IN  /\ t.irods_username = <<>> => Refused(r, 400)
                /\ bearer_token[r] # <<>> =>
                    /\ Issued(r)
                    /\ stash[bearer_token[r][1]].auth_scheme = "openid_connect"
                    /\ <<stash[bearer_token[r][1]].username>> = t.irods_username

C8_Witness ==
    \E r \in DOMAIN pc :
        /\ OnRopc(r)
        /\ NameLookedUp(r)
        /\ decoded_token[r][1].irods_username = <<>>
        /\ decoded_token[r][1].preferred_username = <<bob>>
        /\ Refused(r, 400)

\* C9: when the token exchange fails in the transport or in parsing (url,
\* DNS, connect, a body that is not JSON), the attempt fails with 400 and no
\* token, and the handler does not go on with a null host or a garbage document.
C9_TransportFailureRefused ==
    \A r \in DOMAIN pc :
        transport[r] \in {"url_parse_failed", "resolve_failed", "connect_failed", "not_json"}
        => /\ pc[r] \in {"exchange", "returned"}
           /\ pc[r] = "returned" => Refused(r, 400)

\* The callback the success scenario is about, azp aside.
GoodCallback(r) ==
    /\ OnCallback(r)
    /\ "state" \in DOMAIN url[r]
    /\ url[r]["state"] = placeholder
    /\ "code" \in DOMAIN url[r]
    /\ oidc_response[r] # <<>>
    /\ "error" \notin oidc_response[r][1].members
    /\ oidc_response[r][1].id_token # <<>>
    /\ oidc_response[r][1].id_token[1].decodes
    /\ LET t == oidc_response[r][1].id_token[1].payload
       IN  /\ t.iss = issuer
           /\ t.aud = [is_array |-> FALSE, values |-> <<client_id>>]
           /\ t.exp > clock
           /\ t.irods_username # <<>>

\* The record and the response of the success scenario.
IssuedOidc(r) ==
    /\ Issued(r)
    /\ LET info == stash[bearer_token[r][1]]
       IN  /\ info.auth_scheme = "openid_connect"
           /\ <<info.username>> = oidc_response[r][1].id_token[1].payload.irods_username
           /\ info.password = <<>>
    /\ sent[r][1].status = 200
    /\ sent[r][1].content_type = "text/plain"
    /\ sent[r][1].body = bearer_token[r][1]

\* C10 as stated: a callback with the expected state and a code, answered by
\* the IdP with a non-error document whose ID token has the configured
\* issuer, aud = client id, a future exp and an irods_username, ends with one
\* insert of {openid_connect, irods_username, no password} and 200 text/plain
\* carrying the token.
C10_AsStated ==
    \A r \in DOMAIN pc :
        (GoodCallback(r) /\ Finished(r)) => IssuedOidc(r)

\* C10 as amended: the same, for an ID token whose 'azp', when present, is
\* the client id.
C10_GoodCallbackIssues ==
    \A r \in DOMAIN pc :
        (/\ GoodCallback(r)
         /\ Finished(r)
         /\ oidc_response[r][1].id_token[1].payload.azp \in {<<>>, <<client_id>>})
        => IssuedOidc(r)

C10_Witness ==
    \E r \in DOMAIN pc :
        /\ GoodCallback(r)
        /\ oidc_response[r][1].id_token[1].payload.azp = <<client_id>>
        /\ IssuedOidc(r)

\* A GET whose url has no query or one that does not parse.
OnInitiate(r) == req[r].method = "GET" /\ req[r].target.kind # "query"

\* The pairs of the redirect's query, form-encoded.
RedirectPairs ==
    {<<"client_id", client_id>>, <<"response_type", "code">>, <<"scope", "openid">>,
     <<"redirect_uri", encode(redirect_uri)>>, <<"state", placeholder>>}

\* The unit of work has called neither the IdP nor the backend nor the stash.
NoSideEffects(r) ==
    /\ token_requests[r] = <<>>
    /\ rpc_calls[r] = 0
    /\ bearer_token[r] = <<>>

\* C11: a GET whose query is absent or does not parse takes the redirect:
\* its only response is 302 with Location = authorization_endpoint ? the
\* form-encoding of exactly client_id, response_type=code, scope=openid,
\* redirect_uri and state, and it makes no token exchange, no RPC and no insert.
C11_InitiateRedirects ==
    \A r \in DOMAIN pc :
        OnInitiate(r) =>
            /\ pc[r] \in {"initiate", "returned"}
            /\ NoSideEffects(r)
            /\ pc[r] = "returned" =>
                /\ Len(sent[r]) = 1
                /\ sent[r][1].status = 302
                /\ Len(sent[r][1].location) = 1
                /\ sent[r][1].location[1].endpoint = authorization_endpoint
                /\ Len(sent[r][1].location[1].query) = 5
                /\ {sent[r][1].location[1].query[i] : i \in 1..5} = RedirectPairs

C11_Witness ==
    \E r \in DOMAIN pc :
        /\ OnInitiate(r)
        /\ req[r].target.kind = "absent"
        /\ pc[r] = "returned"
        /\ sent[r][1].status = 302

\* A callback whose 'state' is the expected one and which carries no 'code'.
NoCodeCallback(r) ==
    /\ OnCallback(r)
    /\ "state" \in DOMAIN url[r]
    /\ url[r]["state"] = placeholder
    /\ "code" \notin DOMAIN url[r]

\* C12: a callback with a valid 'state' and no 'code' is answered 400, with
\* or without 'error', 'error_description' and 'error_uri'; it neither calls
\* the token endpoint nor inserts; the exchange is made only for a 'code'.
C12_NoCodeRefused ==
    \A r \in DOMAIN pc :
        /\ (NoCodeCallback(r) /\ pc[r] # "callback") =>
                (Refused(r, 400) /\ token_requests[r] = <<>>)
        /\ (OnCallback(r) /\ (pc[r] = "exchange" \/ token_requests[r] # <<>>)) =>
                "code" \in DOMAIN url[r]

C12_Witness ==
    \E r \in DOMAIN pc :
        /\ NoCodeCallback(r)
        /\ "error" \in DOMAIN url[r]
        /\ Refused(r, 400)
        /\ token_requests[r] = <<>>

\* The unit of work has looked at the document the token endpoint returned.
DocumentChecked(r) ==
    /\ OnCallback(r) \/ OnRopc(r)
    /\ oidc_response[r] # <<>>
    /\ pc[r] # "decode"

\* C13: the returned document counts as an error exactly when it has a
\* top-level 'error' member, whatever else it has; on the callback and on the
\* password grant an error document is answered 400 with no ID token decoded
\* and nothing inserted, and a document without 'error' is never turned away
\* by this check.
C13_ErrorResponseRefused ==
    \A r \in DOMAIN pc :
        DocumentChecked(r) =>
            LET doc == oidc_response[r][1]
            IN  /\ is_error_response(doc) <=> "error" \in doc.members
                /\ "error" \in doc.members =>
                    /\ Refused(r, 400)
                    /\ decoded_token[r] = <<>>
                /\ "error" \notin doc.members =>
                    \/ decoded_token[r] # <<>>
                    \/ /\ pc[r] = "threw"
                       /\ (doc.id_token = <<>> \/ ~doc.id_token[1].decodes)

C13_Witness ==
    \E r \in DOMAIN pc :
        /\ OnRopc(r)
        /\ DocumentChecked(r)
        /\ "error" \in oidc_response[r][1].members
        /\ oidc_response[r][1].id_token # <<>>
        /\ Refused(r, 400)
        /\ decoded_token[r] = <<>>

\* A POST without an Authorization header.
PostWithoutHeader(r) == req[r].method = "POST" /\ req[r].authorization = <<>>

\* A POST whose Authorization value has neither 'Basic ' nor 'iRODS ' in it.
PostOtherScheme(r) ==
    /\ req[r].method = "POST"
    /\ req[r].authorization # <<>>
    /\ req[r].authorization[1].scheme \notin {"Basic ", "iRODS "}

\* A request that is neither GET nor POST.
OtherMethod(r) == req[r].method \notin {"", "GET", "POST"}

\* C14: a POST without an Authorization header is answered 400, a POST whose
\* Authorization value has neither 'Basic ' nor 'iRODS ' in it is answered
\* 400, and any method other than GET and POST is answered 405; none of them
\* calls the IdP or the backend or inserts into the stash.
C14_NoFlowRefused ==
    \A r \in DOMAIN pc :
        /\ (PostWithoutHeader(r) \/ PostOtherScheme(r)) =>
            /\ NoSideEffects(r)
            /\ pc[r] \in {"post", "returned"}
            /\ pc[r] = "returned" => Refused(r, 400)
        /\ OtherMethod(r) =>
            /\ NoSideEffects(r)
            /\ Refused(r, 405)

C14_Witness ==
    \E r \in DOMAIN pc :
        /\ PostOtherScheme(r)
        /\ req[r].authorization[1].scheme = "Bearer "
        /\ Refused(r, 400)
        /\ NoSideEffects(r)

\* The body of the password grant for the credentials the request carries.
RopcBody(r) ==
    [client_id |-> client_id, grant_type |-> "password", scope |-> "openid",
     username |-> Credentials(r)[1], password |-> Credentials(r)[2]]

\* The IdP answered the password grant with a document that is no error and
\* whose ID token decodes and carries 'irods_username'.
RopcAnswered(r) ==
    /\ OnRopc(r)
    /\ oidc_response[r] # <<>>
    /\ "error" \notin oidc_response[r][1].members
    /\ oidc_response[r][1].id_token # <<>>
    /\ oidc_response[r][1].id_token[1].decodes
    /\ oidc_response[r][1].id_token[1].payload.irods_username # <<>>

\* C15: on the password grant empty credentials are answered 401 without the
\* IdP being contacted; otherwise one exchange is made with client_id,
\* grant_type=password, scope=openid, username and password; iss, aud, azp and
\* exp are not looked at, so a non-error answer whose ID token carries
\* 'irods_username' ends in an openid_connect record without password and 200.
C15_RopcGrant ==
    \A r \in DOMAIN pc :
        OnRopc(r) =>
            /\ pc[r] # "validate"
            /\ ~token_expired[r]
            /\ rpc_calls[r] = 0
            /\ Len(token_requests[r]) <= 1
            /\ LET creds == Credentials(r)
                   empty == creds[1] = <<>> \/ creds[2] = <<>>
               IN  /\ empty =>
                        /\ token_requests[r] = <<>>
                        /\ pc[r] # "post" => Refused(r, 401)
                   /\ (pc[r] \notin {"post", "exchange"} /\ ~empty) =>
                        token_requests[r] =
                            <<[client_id |-> client_id, grant_type |-> "password",
                               scope |-> "openid", username |-> creds[1],
                               password |-> creds[2]]>>
            /\ (Finished(r) /\ RopcAnswered(r)) =>
                /\ Issued(r)
                /\ LET info == stash[bearer_token[r][1]]
                   IN  /\ info.auth_scheme = "openid_connect"
                       /\ info.password = <<>>
                       /\ <<info.username>> =
                            oidc_response[r][1].id_token[1].payload.irods_username

C15_Witness ==
    \E r \in DOMAIN pc :
        /\ RopcAnswered(r)
        /\ oidc_response[r][1].id_token[1].payload.iss # issuer
        /\ token_requests[r] = <<RopcBody(r)>>
        /\ Issued(r)
        /\ stash[bearer_token[r][1]].auth_scheme = "openid_connect"

\* The stash after a step: what it held, as it was, and at most one record more.
StashOnlyGrows ==
    \/ stash' = stash
    \/ /\ Len(stash') = Len(stash) + 1
       /\ SubSeq(stash', 1, Len(stash)) = stash

\* A record has a password exactly when its scheme is basic.
PasswordIffBasic(info) == (info.password # <<>>) <=> (info.auth_scheme = "basic")

C17_ExpiresAtNowPlusTtl ==
    [][Len(stash') > Len(stash) =>
          /\ stash'[Len(stash')].expires_at = clock + seconds
          /\ stash'[Len(stash')].expires_at >= clock
          /\ clock' = clock]_vars

C17_Witness ==
    \E r \in DOMAIN pc :
        /\ Issued(r)
        /\ OnBasic(r)
        /\ clock > 0
        /\ stash[bearer_token[r][1]].expires_at = clock + seconds


\* C19: a request makes at most one call of the token endpoint and at most
\* one credential check, whatever the outcome, failures included; the
\* callback and the password grant never run the credential check, and
\* Basic never calls the token endpoint.
C19_NoRetries ==
    \A r \in DOMAIN pc :
        /\ Len(token_requests[r]) <= 1
        /\ rpc_calls[r] <= 1
        /\ (OnCallback(r) \/ OnRopc(r)) => rpc_calls[r] = 0
        /\ OnBasic(r) => token_requests[r] = <<>>
        /\ (transport[r] # "" /\ transport[r] # "ok" /\ Finished(r)) =>
                Len(token_requests[r]) = 1

C19_Witness ==
    \E r \in DOMAIN pc :
        /\ OnCallback(r)
        /\ transport[r] = "connect_failed"
        /\ pc[r] = "threw"
        /\ Len(token_requests[r]) = 1
        /\ rpc_calls[r] = 0


\* The places of an event in the life of the out-parameter.
Places(r, event) == {i \in DOMAIN correct_life[r] : correct_life[r][i] = event}

\* The credential check of the unit of work is over.
CheckOver(r) ==
    /\ OnBasic(r)
    /\ pc[r] \in {"issue", "returned", "threw"}
    /\ ~CredentialsEmpty(r)

\* C20: on Basic the out-parameter of the RPC is released exactly once on
\* every way out of the credential check, after the RPC succeeded, after it
\* failed with a negative code, and when get_connection or the RPC threw; it
\* is never released twice, never left unreleased, and never dereferenced
\* after its release or while it is null.
C20_FlagReleasedOnce ==
    \A r \in DOMAIN pc :
        /\ Cardinality(Places(r, "freed")) <= 1
        /\ \A d \in Places(r, "dereferenced") :
            /\ rpc_result[r].correct # <<>>
            /\ \A f \in Places(r, "freed") : d < f
            /\ \E c \in Places(r, "rc_check_auth_credentials") : c < d
        /\ (CheckOver(r) /\ rpc_result[r].throws # "obfuscate_password") =>
            /\ Cardinality(Places(r, "freed")) = 1
            /\ correct_life[r][Len(correct_life[r])] = "freed"
        /\ (CheckOver(r) /\ credentials_correct(rpc_result[r])) =>
            Places(r, "dereferenced") # {}

C20_Witness ==
    \E r \in DOMAIN pc :
        /\ CheckOver(r)
        /\ rpc_result[r].throws = "rc_check_auth_credentials"
        /\ correct_life[r] = <<"declared", "rc_check_auth_credentials", "freed">>

\* ------------------------------------------------- concurrent units of work

\* Two units of work in flight at once, each serving one request.
Pair == {"r1", "r2"}

PairInit ==
    /\ pc = [r \in Pair |-> "idle"]
    /\ req = [r \in Pair |-> NoRequest]
    /\ url = [r \in Pair |-> NoQuery]
    /\ username = [r \in Pair |-> <<>>]
    /\ password = [r \in Pair |-> <<>>]
    /\ login_successful = [r \in Pair |-> FALSE]
    /\ rpc_result = [r \in Pair |-> NoRpc]
    /\ rpc_calls = [r \in Pair |-> 0]
    /\ correct_life = [r \in Pair |-> <<>>]
    /\ transport = [r \in Pair |-> ""]
    /\ token_requests = [r \in Pair |-> <<>>]
    /\ oidc_response = [r \in Pair |-> <<>>]
    /\ decoded_token = [r \in Pair |-> <<>>]
    /\ token_expired = [r \in Pair |-> FALSE]
    /\ bearer_token = [r \in Pair |-> <<>>]
    /\ sent = [r \in Pair |-> <<>>]
    /\ stash = <<>>
    /\ clock = 0
    /\ issued_states = {}
    /\ accepted_states = {}

\* The requests the two units of work serve: one or two for every branch.
PairRequests ==
    {q \in Requests :
        \/ q.method = "DELETE"
        \/ q.method = "GET" /\ q.target.kind = "absent"
        \/ /\ q.method = "GET"
           /\ q.target.kind = "query"
           /\ DOMAIN q.target.query = {"state", "code"}
        \/ q.method = "POST" /\ q.authorization = <<>>
        \/ /\ q.method = "POST"
           /\ q.authorization # <<>>
           /\ q.authorization[1].scheme \in {"Basic ", "iRODS "}
           /\ q.authorization[1].data = Encoded(<<"a", ":", "a">>)}

\* The documents the IdP answers them with: the plain one, an error, one
\* without id_token and one whose 'azp' names another client.
PairDocs ==
    {d \in Docs :
        \/ Oddness(d) = 0
        \/ /\ Oddness(d) = 1
           /\ \/ d.members = {"error"}
              \/ d.id_token = <<>>
              \/ /\ d.id_token # <<>>
                 /\ d.id_token[1].decodes
                 /\ d.id_token[1].payload.azp = <<"other_client">>
                 /\ d.id_token[1].payload.preferred_username = <<>>}

\* What the credential check meets.
PairRpcOutcomes ==
    {o \in RpcOutcomes :
        \/ o.throws = "" /\ o.ec = 0 /\ o.correct # <<>>
        \/ o.throws = "rc_check_auth_credentials"}

PairNext ==
    \/ \E r \in DOMAIN pc : Dispatch(r) /\ req'[r] \in PairRequests
    \/ \E r \in DOMAIN pc : Initiate(r)
    \/ \E r \in DOMAIN pc : CallbackCheck(r)
    \/ \E r \in DOMAIN pc :
            /\ HitTokenEndpoint(r)
            /\ oidc_response'[r] # <<>> => oidc_response'[r][1] \in PairDocs
    \/ \E r \in DOMAIN pc : DecodeIdToken(r)
    \/ \E r \in DOMAIN pc : ValidateIdToken(r)
    \/ \E r \in DOMAIN pc : IssueOidcToken(r)
    \/ \E r \in DOMAIN pc : PostCheck(r)
    \/ \E r \in DOMAIN pc : CheckCredentials(r) /\ rpc_result'[r] \in PairRpcOutcomes
    \/ \E r \in DOMAIN pc : IssueBasicToken(r)
    \/ Tick

Concurrent == PairInit /\ [][PairNext]_vars

\* The status the IdP's answer leads to when the unit of work runs by
\* itself; 0 stands for an exception that leaves it without a response.
AloneOidcStatus(r, validates) ==
    IF oidc_response[r] = <<>> THEN 0
    ELSE LET doc == oidc_response[r][1]
         IN  IF "error" \in doc.members THEN 400
             ELSE IF doc.id_token = <<>> \/ ~doc.id_token[1].decodes THEN 0
             ELSE LET t == doc.id_token[1].payload
                  IN  IF validates /\ t.iss # issuer THEN 400
                      ELSE IF validates /\ t.aud # [is_array |-> FALSE, values |-> <<client_id>>]
                      THEN 400
                      ELSE IF validates /\ t.azp \notin {<<>>, <<client_id>>} THEN 400
                      ELSE IF t.irods_username = <<>> THEN 400
                      ELSE 200

\* The status the request gets when its unit of work runs by itself, from the
\* request and from what the IdP and the backend answered to it.
AloneStatus(r) ==
    IF req[r].method = "GET"
    THEN IF req[r].target.kind # "query" THEN 302
         ELSE IF "state" \notin DOMAIN req[r].target.query THEN 400
         ELSE IF req[r].target.query["state"] # placeholder THEN 400
         ELSE IF "code" \notin DOMAIN req[r].target.query THEN 400
         ELSE AloneOidcStatus(r, TRUE)
    ELSE IF req[r].method = "POST"
    THEN IF req[r].authorization = <<>> THEN 400
         ELSE IF OnBasic(r)
         THEN IF CredentialsEmpty(r) THEN 401
              ELSE IF /\ rpc_result[r].throws = ""
                      /\ rpc_result[r].ec >= 0
                      /\ rpc_result[r].correct = <<1>>
              THEN 200
              ELSE 401
         ELSE IF OnRopc(r)
         THEN IF CredentialsEmpty(r) THEN 401 ELSE AloneOidcStatus(r, FALSE)
         ELSE 400
    ELSE 405

\* The record a successful request gets when its unit of work runs by itself,
\* its expiry aside.
AloneRecord(r) ==
    IF OnBasic(r)
    THEN [auth_scheme |-> "basic", username |-> Credentials(r)[1],
          password |-> <<Credentials(r)[2]>>]
    ELSE [auth_scheme |-> "openid_connect",
          username |-> oidc_response[r][1].id_token[1].payload.irods_username[1],
          password |-> <<>>]

\* A unit of work that has ended got what it gets when running by itself.
AsIfAlone(r) ==
    pc[r] \in {"returned", "threw"} =>
        /\ AloneStatus(r) = 0 => (pc[r] = "threw" /\ sent[r] = <<>>)
        /\ AloneStatus(r) # 0 =>
            /\ pc[r] = "returned"
            /\ Len(sent[r]) = 1
            /\ sent[r][1].status = AloneStatus(r)
        /\ AloneStatus(r) # 200 => bearer_token[r] = <<>>
        /\ AloneStatus(r) = 200 =>
            /\ Issued(r)
            /\ LET info == stash[bearer_token[r][1]]
               IN  [auth_scheme |-> info.auth_scheme, username |-> info.username,
                    password |-> info.password] = AloneRecord(r)

\* A step of one unit of work leaves what belongs to the others as it was.
OthersUntouched ==
    \A r1, r2 \in DOMAIN pc :
        (r1 # r2 /\ pc'[r1] # pc[r1]) =>
            /\ pc'[r2] = pc[r2]
            /\ req'[r2] = req[r2]
            /\ url'[r2] = url[r2]
            /\ username'[r2] = username[r2]
            /\ password'[r2] = password[r2]
            /\ login_successful'[r2] = login_successful[r2]
            /\ oidc_response'[r2] = oidc_response[r2]
            /\ decoded_token'[r2] = decoded_token[r2]
            /\ bearer_token'[r2] = bearer_token[r2]
            /\ sent'[r2] = sent[r2]

\* Whatever has ended got what it gets alone, no two units of work hold the
\* same token, and the stash holds one record for each success.
OneRecordEach ==
    /\ \A r \in DOMAIN pc : AsIfAlone(r)
    /\ \A r1, r2 \in DOMAIN pc :
        (r1 # r2 /\ bearer_token[r1] # <<>>) => bearer_token[r1] # bearer_token[r2]
    /\ Len(stash) = Cardinality({r \in DOMAIN pc : bearer_token[r] # <<>>})

Statuses(r) == {sent[r][i].status : i \in DOMAIN sent[r]}

\* A 200 was sent by a unit of work that inserted once, and carries the token
\* of that insert; any other status was sent by one that inserted nothing;
\* whoever inserted has sent 200; and the stash holds one record for each 200.
TokensMatchSuccesses ==
    /\ \A r \in DOMAIN pc :
        /\ 200 \in Statuses(r) =>
            /\ Len(bearer_token[r]) = 1
            /\ bearer_token[r][1] \in DOMAIN stash
            /\ sent[r] = <<ok_response(bearer_token[r][1])>>
        /\ Statuses(r) \cap {302, 400, 401, 405} # {} => bearer_token[r] = <<>>
        /\ bearer_token[r] # <<>> => 200 \in Statuses(r)
    /\ \A r1, r2 \in DOMAIN pc :
        (r1 # r2 /\ bearer_token[r1] # <<>>) => bearer_token[r1] # bearer_token[r2]
    /\ Len(stash) = Cardinality({r \in DOMAIN pc : 200 \in Statuses(r)})

\* A step inserts a record exactly when it sends a 200, both by one unit of
\* work, and the body of the 200 is the token the insert returned.
InsertWithOk ==
    /\ \A r \in DOMAIN pc :
        (Len(bearer_token'[r]) > Len(bearer_token[r])) <=>
            (/\ Len(sent'[r]) > Len(sent[r])
             /\ sent'[r][Len(sent'[r])].status = 200)
    /\ Len(stash') > Len(stash) =>
        \E r \in DOMAIN pc :
            /\ bearer_token'[r] = Append(bearer_token[r], Len(stash'))
            /\ sent'[r] = Append(sent[r], ok_response(Len(stash')))
            /\ \A r2 \in DOMAIN pc \ {r} :
                bearer_token'[r2] = bearer_token[r2] /\ sent'[r2] = sent[r2]

\* C22: within each unit of work token issuance and 200 responses correspond
\* one to one: a 200 is sent only after exactly one stash insert by the same
\* unit of work and its body is the token that insert returned; a 302, 400,
\* 401 or 405 is sent by a unit of work that inserted nothing; and no unit
\* of work inserts without then sending 200.
C22_OneTokenPerSuccess ==
    /\ []TokensMatchSuccesses
    /\ [][InsertWithOk]_vars

C22_Witness ==
    /\ Issued("r1")
    /\ OnRopc("r1")
    /\ bearer_token["r1"] = <<2>>
    /\ Issued("r2")
    /\ OnBasic("r2")
    /\ bearer_token["r2"] = <<1>>

\* ------------------------------------------------ credentials as they arrive

\* The base64 texts of the credential strings.
WellFormedTexts == {Encoded(c) : c \in SeqsUpTo(Chars, MaxCredLen)}

\* A text with one thing wrong: a symbol or a pad too many, its last symbol
\* missing, a character outside the alphabet somewhere, or a pad in the place
\* of a symbol.
Damaged(text) ==
    {Append(text, Pad)}
    \cup {Append(text, text[1]) : i \in {1} \cap DOMAIN text}
    \cup {SubSeq(text, 1, Len(text) - 1) : i \in {1} \cap DOMAIN text}
    \cup {SubSeq(text, 1, i) \o <<Skipped>> \o SubSeq(text, i + 1, Len(text)) :
            i \in 0..Len(text)}
    \cup {[text EXCEPT ![i] = Pad] : i \in DOMAIN text}

\* What follows the scheme in the Authorization values clients send.
Texts == WellFormedTexts \cup UNION {Damaged(text) : text \in WellFormedTexts}

\* The POST requests carrying them.
TextRequests ==
    {[method |-> "POST", target |-> [kind |-> "absent", query |-> NoQuery],
      authorization |-> <<[scheme |-> s, data |-> text]>>] :
        s \in {"Basic ", "iRODS "}, text \in Texts}

\* The entry function for such a POST: the task is handed to the dispatcher.
DispatchText(r) ==
    /\ Alive
    /\ pc[r] = "idle"
    /\ Len(stash) < MaxStash
    /\ \E request \in TextRequests :
        /\ req' = [req EXCEPT ![r] = request]
        /\ pc' = [pc EXCEPT ![r] = "post"]
    /\ UNCHANGED <<url, username, password, login_successful, rpc_result, rpc_calls,
                   correct_life, transport, token_requests, oidc_response, decoded_token,
                   token_expired, bearer_token>>
    /\ UNCHANGED <<sent, stash, clock, issued_states, accepted_states>>

DecodingNext ==
    \/ \E r \in DOMAIN pc : DispatchText(r)
    \/ \E r \in DOMAIN pc : PostCheck(r)
    \/ \E r \in DOMAIN pc : CheckCredentials(r) /\ rpc_result'[r] \in PairRpcOutcomes
    \/ \E r \in DOMAIN pc : IssueBasicToken(r)
    \/ \E r \in DOMAIN pc :
            /\ HitTokenEndpoint(r)
            /\ oidc_response'[r] # <<>> => oidc_response'[r][1] \in PairDocs
    \/ \E r \in DOMAIN pc : DecodeIdToken(r)
    \/ \E r \in DOMAIN pc : IssueOidcToken(r)

Decoding == Init /\ [][DecodingNext]_vars

\* A text no base64 encoder writes: its length is no multiple of four, it has
\* a character outside the alphabet, or a pad elsewhere than at its end.
Malformed(text) ==
    \/ Len(text) % 4 # 0
    \/ \E i \in DOMAIN text : text[i] = Skipped
    \/ \E i \in DOMAIN text : text[i] = Pad /\ i < Len(text) - 1
    \/ /\ Len(text) >= 2
       /\ text[Len(text) - 1] = Pad
       /\ text[Len(text)] # Pad

\* The pair a credential string stands for: split at its first ':', or two
\* empty strings when it has none.
SplitAtFirstColon(c) ==
    IF \A i \in DOMAIN c : c[i] # ":" THEN <<<<>>, <<>>>>
    ELSE LET k == CHOOSE i \in DOMAIN c : c[i] = ":" /\ \A j \in 1..(i - 1) : c[j] # ":"
         IN  <<SubSeq(c, 1, k - 1), SubSeq(c, k + 1, Len(c))>>

\* C21: decode_username_and_password gives the username and password split
\* at the first ':' of the decoded text, so the password may hold a ':'; for
\* a text that is malformed base64 or decodes to something without ':' it
\* gives two empty strings, and Basic and the password grant answer 401.
C21_DecodeSplitsOrEmpty ==
    \A r \in DOMAIN pc :
        (OnBasic(r) \/ OnRopc(r)) =>
            LET text == req[r].authorization[1].data
                creds == decode_username_and_password(text)
                refused == pc[r] # "post" => Refused(r, 401)
            IN  /\ \A c \in SeqsUpTo(Chars, MaxCredLen) :
                    text = Encoded(c) => creds = SplitAtFirstColon(c)
                /\ Malformed(text) => (creds = <<<<>>, <<>>>> /\ refused)
                /\ creds = <<<<>>, <<>>>> => refused

====
